---------------------------- MODULE Spec2Model ----------------------------
(***************************************************************************)
(* A model of the InputBar widget of src/inputbar.go: a text field with an *)
(* autocomplete popup.  Texts are sequences of tokens (one token is one    *)
(* rune or one style tag), so that stripTags, TaggedStringWidth and the    *)
(* text buffer's edits do real work.  A Go panic is recorded in fault;     *)
(* a panicked program takes no further step.                               *)
(***************************************************************************)
EXTENDS Integers, Sequences, FiniteSets

(***************************************************************************)
(* Bounds of the model.                                                    *)
(***************************************************************************)
MaxTextLen == 3     \* longest text the text buffer holds
MaxSortLen == 7     \* longest candidate slice of the ranking specification
MaxCount == 3       \* most candidates of the layout specification
MaxY == 6           \* largest anchor row of the layout specification
MaxScreen == 6      \* largest screen height of the layout specification

(***************************************************************************)
(* Tokens.                                                                 *)
(***************************************************************************)
Chars == {"a"}                  \* the runes the user types
Tags == {"[red]"}               \* style tags (no display columns)
WideRunes == {"W"}              \* runes two display columns wide
NewLine == "\n"
TabRune == "\t"

Min(a, b) == IF a < b THEN a ELSE b

\* stripTags: the text without its style tags.
stripTags(text) == SelectSeq(text, LAMBDA t : t \notin Tags)

RECURSIVE SumWidth(_)
SumWidth(text) ==
    IF text = << >> THEN 0
    ELSE (IF Head(text) \in WideRunes THEN 2 ELSE 1) + SumWidth(Tail(text))

\* TaggedStringWidth: the display columns of a text, tags not counted.
TaggedStringWidth(text) == SumWidth(stripTags(text))

(***************************************************************************)
(* sort.Slice(items, less) with less(i, j) = Priority[i] > Priority[j].    *)
(* sort.Slice is documented as not stable; what it returns depends on the  *)
(* toolchain that builds the program.  For a slice of at most 12 elements  *)
(* the Go 1.18 library (go.mod: go 1.18) runs one ShellSort pass with gap  *)
(* 6 and then an insertion sort; the pdqsort of later toolchains runs the  *)
(* insertion sort alone.  Indices are 1-based here.                        *)
(***************************************************************************)
Toolchains == {"go1.18", "pdqsort"}

Less(items, i, j) == items[i].Priority > items[j].Priority

Swap(items, i, j) == [items EXCEPT ![i] = items[j], ![j] = items[i]]

RECURSIVE SiftDown(_, _)
SiftDown(items, j) ==
    IF j > 1 /\ Less(items, j, j - 1)
    THEN SiftDown(Swap(items, j, j - 1), j - 1)
    ELSE items

RECURSIVE InsertionFrom(_, _)
InsertionFrom(items, i) ==
    IF i > Len(items) THEN items
    ELSE InsertionFrom(SiftDown(items, i), i + 1)

insertionSort(items) == InsertionFrom(items, 2)

RECURSIVE ShellPassFrom(_, _)
ShellPassFrom(items, i) ==
    IF i > Len(items) THEN items
    ELSE ShellPassFrom(IF Less(items, i, i - 6) THEN Swap(items, i, i - 6)
                       ELSE items, i + 1)

SortSlice(items, tc) ==
    IF Len(items) <= 1 THEN items
    ELSE IF tc = "go1.18" THEN insertionSort(ShellPassFrom(items, 7))
    ELSE insertionSort(items)


(***************************************************************************)
(* The state.                                                              *)
(***************************************************************************)
VARIABLES
    text,              \* textArea: the text of the buffer
    cursor,            \* textArea: tokens before the cursor
    autocompleteList,  \* the popup: present = FALSE is the nil pointer
    autocompleteFunc,  \* "nil" or the provider registered
    autocompleted,     \* "nil" or the behaviour of the callback registered
    changed,           \* "nil" or "set"
    fault,             \* "none" or the panic that ended the program
    slice,             \* the slice the latest operation passed to
                       \* SetAutocompleteList (empty if none), as it is now
    supplied,          \* history: that slice as it was supplied
    hist,              \* history: outcome of the latest refresh, Escape since
    last,              \* history: what the latest operation did
    box,               \* the inner rectangle of the widget and the label
    sheight,           \* screen.Size(): the height
    listRect,          \* the rectangle Draw gave the popup
    mutex,             \* autocompleteListMutex: "free" or the holder
    draw               \* a Draw that runs beside the other operations:
                       \* its position and its local variables

coreVars == <<text, cursor, autocompleteList, autocompleteFunc, autocompleted,
              changed, fault, slice>>
histVars == <<supplied, hist, last>>
drawVars == <<box, sheight, listRect, mutex, draw>>
vars == <<coreVars, histVars, drawVars>>

(***************************************************************************)
(* AutocompleteItem values of the environment.                             *)
(***************************************************************************)
AutocompleteItem(v, d, p) == [Value |-> v, Description |-> d, Priority |-> p]

ItemAB == AutocompleteItem(<<"a", "b">>, << >>, 1)
ItemTagB == AutocompleteItem(<<"[red]", "b">>, <<"W">>, 2)
ItemB == AutocompleteItem(<<"b">>, <<"a">>, 2)

\* The providers a host may register: autocompleteFunc(word, pos).
Providers == {"fixed", "prefix"}

Provider(id, word, pos) ==
    CASE id = "fixed" -> <<ItemAB, ItemTagB>>
      [] id = "prefix" -> IF word = <<"a">> THEN <<ItemAB>> ELSE << >>

\* The autocompleted callbacks a host may register: what they do with the
\* widget and what they return.
Callbacks == {"keep", "close", "setkeep"}

\* The slices a host passes to SetAutocompleteList directly.
ListInputs == {<< >>, <<ItemAB, ItemTagB>>, <<ItemB>>}

(***************************************************************************)
(* The List collaborator (the popup).                                      *)
(***************************************************************************)
NilList == [present |-> FALSE, items |-> << >>, currentItem |-> 0]
NewList == [present |-> TRUE, items |-> << >>, currentItem |-> 0]

ListItem(item) == [MainText |-> item.Value, SecondaryText |-> item.Description]

GetItemCount(list) == Len(list.items)

\* A sequential run of a handler is a record m of the fields it reads and
\* writes; a step of a panicked run changes nothing.
Panic(m, what) == [m EXCEPT !.fault = what]

\* List.Clear on the widget's popup; a nil popup is a nil dereference.
ListClear(m) ==
    IF m.fault # "none" THEN m
    ELSE IF ~m.list.present THEN Panic(m, "nil pointer dereference")
    ELSE [m EXCEPT !.list = NewList]

(***************************************************************************)
(* The TextArea collaborator.                                              *)
(***************************************************************************)
Insert(t, c, tok) == SubSeq(t, 1, c) \o <<tok>> \o SubSeq(t, c + 1, Len(t))

Delete(t, c) == SubSeq(t, 1, c - 1) \o SubSeq(t, c + 1, Len(t))

\* The row of the cursor: the line breaks before it.
Row(t, c) == Cardinality({i \in 1..c : t[i] = NewLine})

\* Tokens before the start of the line that position c is in.
LineStart(t, c) ==
    LET brk == {i \in 1..c : t[i] = NewLine}
    IN  IF brk = {} THEN 0 ELSE CHOOSE i \in brk : \A j \in brk : j <= i

\* Tokens before the end of the line that position c is in.
LineEnd(t, c) ==
    LET brk == {i \in (c + 1)..Len(t) : t[i] = NewLine}
    IN  IF brk = {} THEN Len(t)
        ELSE (CHOOSE i \in brk : \A j \in brk : i <= j) - 1

CursorUp(t, c) ==
    LET s == LineStart(t, c)
    IN  IF s = 0 THEN c
        ELSE LET ps == LineStart(t, s - 1)
             IN  ps + Min(c - s, (s - 1) - ps)

CursorDown(t, c) ==
    LET e == LineEnd(t, c)
    IN  IF e = Len(t) THEN c
        ELSE LET ns == e + 1
             IN  ns + Min(c - LineStart(t, c), LineEnd(t, ns) - ns)

\* TextArea.SetText(text, true): replace the text, cursor to the end.
SetText(m, t) ==
    IF m.fault # "none" THEN m
    ELSE [m EXCEPT !.text = t, !.cursor = Len(t)]

\* TextArea.InputHandler: the buffer's own handling of a key.
TextAreaInput(m, ev) ==
    IF m.fault # "none" THEN m
    ELSE LET t == m.text
             c == m.cursor
             n == [m EXCEPT !.toTextArea = TRUE]
         IN  CASE ev.key = "KeyRune" ->
                    [n EXCEPT !.text = Insert(t, c, ev.rune), !.cursor = c + 1]
               [] ev.key = "KeyEnter" ->
                    [n EXCEPT !.text = Insert(t, c, NewLine), !.cursor = c + 1]
               [] ev.key = "KeyTab" ->
                    [n EXCEPT !.text = Insert(t, c, TabRune), !.cursor = c + 1]
               [] ev.key \in {"KeyBackspace", "KeyBackspace2"} ->
                    IF c = 0 THEN n
                    ELSE [n EXCEPT !.text = Delete(t, c), !.cursor = c - 1]
               [] ev.key = "KeyUp" -> [n EXCEPT !.cursor = CursorUp(t, c)]
               [] ev.key = "KeyDown" -> [n EXCEPT !.cursor = CursorDown(t, c)]
               [] OTHER -> n

(***************************************************************************)
(* The widget's operations, as runs over a record m.                       *)
(***************************************************************************)
NavKeys == {"KeyTab", "KeyDown", "KeyUp", "KeyBackspace"}

Keys == NavKeys \cup {"KeyEnter", "KeyEscape", "KeyBackspace2"}

Events == {[key |-> "KeyRune", rune |-> c] : c \in Chars}
              \cup {[key |-> k, rune |-> ""] : k \in Keys}

\* The run a handler starts in: the widget's fields, nothing called yet.
Begin ==
    [text |-> text, cursor |-> cursor, list |-> autocompleteList,
     fault |-> fault, slice |-> << >>, supplied |-> << >>, hist |-> hist,
     currentText |-> text, changedCalls |-> << >>, providerCalls |-> << >>,
     autocompletedCalls |-> << >>, toTextArea |-> FALSE, itemRead |-> FALSE]

\* InputBar.SetAutocompleteList: clear the popup, sort the caller's slice in
\* place by priority, add one popup item per candidate.
SetAutocompleteListRun(m, items, tc) ==
    LET c == ListClear([m EXCEPT !.supplied = items, !.slice = items])
        sorted == SortSlice(items, tc)
    IN  IF c.fault # "none" THEN c
        ELSE [c EXCEPT !.slice = sorted,
                       !.list.items = [i \in 1..Len(sorted) |-> ListItem(sorted[i])],
                       !.hist = [ranked |-> IF sorted = << >> THEN "empty"
                                            ELSE "nonempty",
                                 escaped |-> FALSE]]

\* InputBar.Autocomplete: the refresh.
AutocompleteRun(m, f, tc) ==
    IF m.fault # "none" \/ f = "nil" THEN m
    ELSE LET c == ListClear(m)
             items == Provider(f, c.text, Row(c.text, c.cursor))
             called == [c EXCEPT !.providerCalls = Append(@, c.text),
                                 !.hist = [ranked |-> "empty", escaped |-> FALSE]]
         IN  IF c.fault # "none" THEN c
             ELSE IF c.text = << >>
             THEN [c EXCEPT !.hist = [ranked |-> "empty", escaped |-> FALSE]]
             ELSE IF items = << >> THEN called
             ELSE SetAutocompleteListRun(called, items, tc)

\* SelectionChanged without the bookkeeping of line 252: the preview is
\* written but currentText keeps the text of the start of the run.
SelectionChangedUntracked(m, index, mainText) ==
    LET t == stripTags(mainText)
        told == [m EXCEPT !.autocompletedCalls =
                              Append(@, <<t, index, "AutocompletedNavigate">>)]
        ran == IF autocompleted = "setkeep" THEN SetText(told, t) ELSE told
    IN  IF autocompleted # "nil"
        THEN IF autocompleted = "close"
             THEN [ran EXCEPT !.list = NilList, !.currentText = ran.text]
             ELSE ran
        ELSE SetText(m, t)

\* SelectionChanged without the stripTags of line 244: the item's main text
\* is passed on and written as it is.
SelectionChangedRaw(m, index, mainText) ==
    LET t == mainText
        told == [m EXCEPT !.autocompletedCalls =
                              Append(@, <<t, index, "AutocompletedNavigate">>)]
        ran == IF autocompleted = "setkeep" THEN SetText(told, t) ELSE told
    IN  IF autocompleted # "nil"
        THEN IF autocompleted = "close"
             THEN [ran EXCEPT !.list = NilList, !.currentText = ran.text]
             ELSE ran
        ELSE [SetText(m, t) EXCEPT !.currentText = t]

\* The function InputHandler registers with List.SetChangedFunc (lines
\* 243-254), called by the popup when its selection moved to index.
SelectionChanged(m, index, mainText) ==
    LET t == stripTags(mainText)
        told == [m EXCEPT !.autocompletedCalls =
                              Append(@, <<t, index, "AutocompletedNavigate">>)]
        ran == IF autocompleted = "setkeep" THEN SetText(told, t) ELSE told
    IN  IF autocompleted # "nil"
        THEN IF autocompleted = "close"
             THEN [ran EXCEPT !.list = NilList, !.currentText = ran.text]
             ELSE ran
        ELSE [SetText(m, t) EXCEPT !.currentText = stripTags(t)]

\* List.InputHandler: the popup's own navigation.  An empty list handles
\* nothing; Tab and Down select the next item, Up the one before, and the
\* selection wraps around; Backspace is no navigation key of the list; the
\* changed function is called when the selection moved.
ListInput(m, ev) ==
    LET n == Len(m.list.items)
        cur == m.list.currentItem
        moved == CASE ev.key \in {"KeyTab", "KeyDown"} -> cur + 1
                   [] ev.key = "KeyUp" -> cur - 1
                   [] OTHER -> cur
        to == IF moved < 0 THEN n - 1 ELSE IF moved >= n THEN 0 ELSE moved
    IN  IF n = 0 \/ to = cur THEN m
        ELSE SelectionChanged([m EXCEPT !.list.currentItem = to], to,
                              m.list.items[to + 1].MainText)

\* The deferred function of InputHandler (lines 223-233).  A run that
\* panicked before it left the text as it was, so it does nothing then.
Deferred(m, tc) ==
    IF m.fault # "none" \/ m.text = m.currentText THEN m
    ELSE LET r == AutocompleteRun(m, autocompleteFunc, tc)
         IN  IF r.fault = "none" /\ changed # "nil"
             THEN [r EXCEPT !.changedCalls = Append(@, r.text)]
             ELSE r

\* The body of InputHandler (lines 235-267).
Body(m, ev) ==
    IF ~m.list.present
    THEN TextAreaInput(IF ev.key = "KeyEscape" THEN [m EXCEPT !.hist.escaped = TRUE]
                       ELSE m, ev)
    ELSE CASE ev.key = "KeyEscape" ->
                [m EXCEPT !.list = NilList, !.hist.escaped = TRUE]
           [] ev.key \in NavKeys -> ListInput(m, ev)
           [] ev.key = "KeyEnter" ->
                LET read == [m EXCEPT !.itemRead = TRUE]
                IN  IF m.list.currentItem >= Len(m.list.items)
                    THEN Panic(read, "index out of range")
                    ELSE TextAreaInput(
                             ListClear(SetText(read,
                                 m.list.items[m.list.currentItem + 1].MainText)),
                             ev)
           [] OTHER -> TextAreaInput(m, ev)

InputHandlerRun(ev, tc) == Deferred(Body(Begin, ev), tc)

(***************************************************************************)
(* Queries.                                                                *)
(***************************************************************************)
GetText == text

\* InputBar.IsAutocompleteVisible: on a nil popup the call panics.
IsAutocompleteVisible ==
    [panics |-> ~autocompleteList.present,
     value |-> autocompleteList.present /\ GetItemCount(autocompleteList) > 0]

(***************************************************************************)
(* The actions.                                                            *)
(***************************************************************************)
NoCalls == [text |-> << >>, changedCalls |-> << >>, providerCalls |-> << >>,
            autocompletedCalls |-> << >>, toTextArea |-> FALSE,
            itemRead |-> FALSE]

\* What the history keeps of a finished run m of operation op.
Record(op, key, m) ==
    [op |-> op, key |-> key, changedText |-> m.text # text,
     changedCalls |-> m.changedCalls, providerCalls |-> m.providerCalls,
     autocompletedCalls |-> m.autocompletedCalls, toTextArea |-> m.toTextArea,
     itemRead |-> m.itemRead]

Commit(op, key, m) ==
    /\ Len(m.text) <= MaxTextLen
    /\ text' = m.text
    /\ cursor' = m.cursor
    /\ autocompleteList' = m.list
    /\ fault' = m.fault
    /\ slice' = m.slice
    /\ supplied' = m.supplied
    /\ hist' = m.hist
    /\ last' = Record(op, key, m)

TypeOK ==
    /\ Len(text) <= MaxTextLen
    /\ cursor \in 0..Len(text)
    /\ autocompleteList.present \in BOOLEAN
    /\ autocompleteList.currentItem \in 0..Len(autocompleteList.items)
    /\ autocompleteFunc \in Providers \cup {"nil"}
    /\ autocompleted \in Callbacks \cup {"nil"}
    /\ changed \in {"nil", "set"}
    /\ fault \in {"none", "nil pointer dereference", "index out of range"}

\* No Draw is running.
NoDraw == [pc |-> "idle", listHeight |-> 0, i |-> 0, listWidth |-> 0]

Init0 ==
    /\ text = << >>
    /\ cursor = 0
    /\ autocompleteList = NewList
    /\ autocompleteFunc = "nil"
    /\ autocompleted = "nil"
    /\ changed = "nil"
    /\ fault = "none"
    /\ slice = << >>
    /\ supplied = << >>
    /\ hist = [ranked |-> "none", escaped |-> FALSE]
    /\ last = Record("NewInputBar", "", NoCalls)
    /\ listRect = [set |-> FALSE, x |-> 0, y |-> 0, width |-> 0, height |-> 0]
    /\ mutex = "free"
    /\ draw = NoDraw

\* NewInputBar, drawn on a fixed screen.
Init ==
    /\ Init0
    /\ box = [x |-> 0, y |-> 0, width |-> 10, height |-> 1, labelWidth |-> 0]
    /\ sheight = MaxScreen

\* InputBar.InputHandler, one key event.
InputHandler(ev) ==
    /\ fault = "none"
    /\ \E tc \in Toolchains : Commit("InputHandler", ev.key, InputHandlerRun(ev, tc))
    /\ UNCHANGED <<autocompleteFunc, autocompleted, changed, drawVars>>

\* InputBar.SetAutocompleteFunc: register the provider and refresh.
SetAutocompleteFunc(f) ==
    /\ fault = "none"
    /\ autocompleteFunc' = f
    /\ \E tc \in Toolchains :
           Commit("SetAutocompleteFunc", "", AutocompleteRun(Begin, f, tc))
    /\ UNCHANGED <<autocompleted, changed, drawVars>>

\* InputBar.SetAutocompleteList called by the host.
SetAutocompleteList(items) ==
    /\ fault = "none"
    /\ \E tc \in Toolchains :
           Commit("SetAutocompleteList", "", SetAutocompleteListRun(Begin, items, tc))
    /\ UNCHANGED <<autocompleteFunc, autocompleted, changed, drawVars>>

\* Registration of the changed callback.
SetChangedFunc(h) ==
    /\ fault = "none"
    /\ changed' = h
    /\ Commit("SetChangedFunc", "", Begin)
    /\ UNCHANGED <<autocompleteFunc, autocompleted, drawVars>>

\* Registration of the autocompleted callback.
SetAutocompletedFunc(cb) ==
    /\ fault = "none"
    /\ autocompleted' = cb
    /\ Commit("SetAutocompletedFunc", "", Begin)
    /\ UNCHANGED <<autocompleteFunc, changed, drawVars>>

Next ==
    \/ \E ev \in Events : InputHandler(ev)
    \/ \E f \in Providers \cup {"nil"} : SetAutocompleteFunc(f)
    \/ \E items \in ListInputs : SetAutocompleteList(items)
    \/ \E h \in {"nil", "set"} : SetChangedFunc(h)
    \/ \E cb \in Callbacks \cup {"nil"} : SetAutocompletedFunc(cb)

Spec == Init /\ [][Next]_vars

(***************************************************************************)
(* Ranking of long candidate slices: SetAutocompleteList applied to every  *)
(* slice of at most MaxSortLen candidates with priorities 1 and 2.  The    *)
(* candidate at position i of the supplied slice has a value of i runes,   *)
(* so every candidate of a slice is told from the others.                  *)
(***************************************************************************)
SortPriorities == {1, 2}

SortInputs ==
    UNION {{[i \in 1..n |-> AutocompleteItem([j \in 1..i |-> "a"], << >>, ps[i])] :
                ps \in [1..n -> SortPriorities]} : n \in 0..MaxSortLen}

NextSort == \E items \in SortInputs : SetAutocompleteList(items)

SpecSort == Init /\ [][NextSort]_vars

(***************************************************************************)
(* Popup layout: Draw.                                                     *)
(***************************************************************************)
\* The loop of lines 188-195 from index i on, listWidth so far.
RECURSIVE FindLongest(_, _, _)
FindLongest(items, i, listWidth) ==
    IF i > Len(items) THEN listWidth
    ELSE LET compinedWidth ==
                 TaggedStringWidth(items[i].MainText \o items[i].SecondaryText)
         IN  FindLongest(items, i + 1,
                         IF compinedWidth > listWidth THEN compinedWidth + 2
                         ELSE listWidth)

\* Layout with the flipped popup one row too low (y - listHeight + 1 at
\* line 202): its last row is the widget's row.
LayoutOneRowLow(y, count, sh) ==
    LET listHeight == count + 2
        below == y + 1
        ly == IF below + listHeight >= sh /\ below - 2 > listHeight - below
              THEN (IF y - listHeight + 1 < 0 THEN 0 ELSE y - listHeight + 1)
              ELSE below
    IN  [y |-> ly,
         height |-> IF ly + listHeight >= sh THEN sh - ly ELSE listHeight]

\* Lines 196-209: the row and the height of the popup for the widget's inner
\* row y, count candidates and a screen of sheight rows.
Layout(y, count, sh) ==
    LET listHeight == count + 2
        below == y + 1
        ly == IF below + listHeight >= sh /\ below - 2 > listHeight - below
              THEN (IF y - listHeight < 0 THEN 0 ELSE y - listHeight)
              ELSE below
    IN  [y |-> ly,
         height |-> IF ly + listHeight >= sh THEN sh - ly ELSE listHeight]

\* InputBar.Draw run in one piece, no other operation beside it.  The text
\* area is drawn first; the popup gets its rectangle under the mutex.
Draw ==
    /\ fault = "none"
    /\ mutex = "free" /\ draw.pc = "idle"
    /\ IF box.height < 1 \/ box.width < 1 \/ ~autocompleteList.present
       THEN listRect' = listRect
       ELSE LET l == Layout(box.y, GetItemCount(autocompleteList), sheight)
            IN  listRect' = [set |-> TRUE,
                             x |-> box.x + box.labelWidth + 5,
                             y |-> l.y,
                             width |-> FindLongest(autocompleteList.items, 1, 0),
                             height |-> l.height]
    /\ last' = Record("Draw", "", Begin)
    /\ slice' = << >>
    /\ supplied' = << >>
    /\ UNCHANGED <<text, cursor, autocompleteList, autocompleteFunc,
                   autocompleted, changed, fault, hist, box, sheight, mutex, draw>>

\* Candidates of display width 1 and 3.
LayoutItems ==
    {AutocompleteItem(<<"a">>, << >>, 1),
     AutocompleteItem(<<"[red]", "a">>, <<"W">>, 1)}

LayoutInputs == UNION {[1..n -> LayoutItems] : n \in 0..MaxCount}

\* The widget anywhere on or below a screen of any height.
InitLayout ==
    /\ Init0
    /\ \E y \in 0..MaxY, w \in {0, 10} :
           box = [x |-> 0, y |-> y, width |-> w, height |-> 1, labelWidth |-> 2]
    /\ sheight \in 0..MaxScreen

NextLayout ==
    \/ \E items \in LayoutInputs : SetAutocompleteList(items)
    \/ InputHandler([key |-> "KeyEscape", rune |-> ""])
    \/ Draw

SpecLayout == InitLayout /\ [][NextLayout]_vars

(***************************************************************************)
(* Draw beside the other operations.  Draw is the only operation that      *)
(* takes autocompleteListMutex; SetAutocompleteList and the input handler  *)
(* never do, so they run between any two reads Draw makes of the popup.    *)
(* Each action below is one read or write of e.autocompleteList by Draw.   *)
(***************************************************************************)
DrawStepUnchanged ==
    UNCHANGED <<text, cursor, autocompleteList, autocompleteFunc, autocompleted,
                changed, slice, supplied, hist, last, box, sheight>>

\* A panic inside Draw: the deferred Unlock of line 181 runs, then the
\* panic leaves the widget.
DrawPanics(reason) ==
    /\ fault' = reason
    /\ mutex' = "free"
    /\ draw' = [draw EXCEPT !.pc = "panicked"]
    /\ listRect' = listRect

\* Lines 153-181: the text area is drawn, then the mutex is taken.
DrawLock ==
    /\ fault = "none"
    /\ draw.pc = "idle" /\ mutex = "free"
    /\ box.height >= 1 /\ box.width >= 1
    /\ mutex' = "Draw"
    /\ draw' = [NoDraw EXCEPT !.pc = "check"]
    /\ UNCHANGED <<fault, listRect>>
    /\ DrawStepUnchanged

\* Line 183: the presence check.  Without a popup Draw returns and the
\* deferred Unlock runs.
DrawCheck ==
    /\ fault = "none"
    /\ draw.pc = "check"
    /\ IF autocompleteList.present
       THEN draw' = [draw EXCEPT !.pc = "count"] /\ mutex' = mutex
       ELSE draw' = NoDraw /\ mutex' = "free"
    /\ UNCHANGED <<fault, listRect>>
    /\ DrawStepUnchanged

\* Lines 184-185: e.autocompleteList is read again for GetItemCount.
DrawCount ==
    /\ fault = "none"
    /\ draw.pc = "count"
    /\ IF ~autocompleteList.present
       THEN DrawPanics("nil pointer dereference")
       ELSE /\ draw' = [draw EXCEPT !.pc = "item",
                                     !.listHeight = GetItemCount(autocompleteList),
                                     !.i = 0, !.listWidth = 0]
            /\ UNCHANGED <<fault, mutex, listRect>>
    /\ DrawStepUnchanged

\* Lines 188-195, one turn of the loop: e.autocompleteList is read again for
\* GetItemText(i), with the count read at line 184.
DrawItem ==
    /\ fault = "none"
    /\ draw.pc = "item" /\ draw.i < draw.listHeight
    /\ IF ~autocompleteList.present
       THEN DrawPanics("nil pointer dereference")
       ELSE IF draw.i >= Len(autocompleteList.items)
       THEN DrawPanics("index out of range")
       ELSE LET item == autocompleteList.items[draw.i + 1]
                compinedWidth ==
                    TaggedStringWidth(item.MainText \o item.SecondaryText)
            IN  /\ draw' = [draw EXCEPT
                               !.i = draw.i + 1,
                               !.listWidth = IF compinedWidth > draw.listWidth
                                             THEN compinedWidth + 2
                                             ELSE draw.listWidth]
                /\ UNCHANGED <<fault, mutex, listRect>>
    /\ DrawStepUnchanged

\* Lines 196-212: the loop is over, the rectangle is computed from the
\* count read at line 184 and e.autocompleteList is read again for SetRect.
DrawSetRect ==
    /\ fault = "none"
    /\ draw.pc = "item" /\ draw.i >= draw.listHeight
    /\ IF ~autocompleteList.present
       THEN DrawPanics("nil pointer dereference")
       ELSE LET l == Layout(box.y, draw.listHeight, sheight)
            IN  /\ listRect' = [set |-> TRUE,
                                x |-> box.x + box.labelWidth + 5,
                                y |-> l.y,
                                width |-> draw.listWidth,
                                height |-> l.height]
                /\ draw' = [draw EXCEPT !.pc = "list"]
                /\ UNCHANGED <<fault, mutex>>
    /\ DrawStepUnchanged

\* Lines 213-215: e.autocompleteList is read a last time for List.Draw, the
\* collaborator's drawing; the deferred Unlock runs when Draw returns.
DrawList ==
    /\ fault = "none"
    /\ draw.pc = "list"
    /\ IF ~autocompleteList.present
       THEN DrawPanics("nil pointer dereference")
       ELSE /\ draw' = NoDraw
            /\ mutex' = "free"
            /\ UNCHANGED <<fault, listRect>>
    /\ DrawStepUnchanged

\* One row of screen is enough to run Draw beside the mutators.
InitConc ==
    /\ Init0
    /\ box = [x |-> 0, y |-> 0, width |-> 10, height |-> 1, labelWidth |-> 2]
    /\ sheight \in {4, MaxScreen}

NextConc ==
    \/ DrawLock
    \/ DrawCheck
    \/ DrawCount
    \/ DrawItem
    \/ DrawSetRect
    \/ DrawList
    \/ \E items \in ListInputs : SetAutocompleteList(items)
    \/ \E k \in {"KeyEscape", "KeyDown"} : InputHandler([key |-> k, rune |-> ""])
    \/ SetAutocompletedFunc("close")

SpecConc == InitConc /\ [][NextConc]_vars

(***************************************************************************)
(* The claims.                                                             *)
(***************************************************************************)
KeyEvent(k) == last.op = "InputHandler" /\ last.key = k

Closed == [panics |-> FALSE, value |-> FALSE]
Open == [panics |-> FALSE, value |-> TRUE]

\* The value of the highlighted candidate of a populated popup.
Highlighted == autocompleteList.items[autocompleteList.currentItem + 1].MainText

\* Candidate i of items ranks before candidate j: higher priority, or equal
\* priority and supplied earlier.
RanksBefore(items, i, j) ==
    \/ items[i].Priority > items[j].Priority
    \/ items[i].Priority = items[j].Priority /\ i < j

\* The stable ranking of items by priority, descending.
StableRank(items) ==
    [k \in 1..Len(items) |->
        items[CHOOSE i \in 1..Len(items) :
                  Cardinality({j \in 1..Len(items) : RanksBefore(items, j, i)}) = k - 1]]

\* C1: whenever SetAutocompleteList has run on a slice (called by the host or
\* by a refresh), the popup lists the candidates of the slice as supplied by
\* priority, descending, candidates of equal priority in the order supplied.
C1_RankedStable ==
    (fault = "none" /\ (supplied # << >> \/ last.op = "SetAutocompleteList"))
        => autocompleteList.items =
               [k \in 1..Len(supplied) |-> ListItem(StableRank(supplied)[k])]

\* C2: after an Escape key event IsAutocompleteVisible() returns false and
\* GetText() returns the text it returned before the event.
C2_EscapeCloses ==
    KeyEvent("KeyEscape") => IsAutocompleteVisible = Closed /\ ~last.changedText

\* C3: after a dismissal by Escape, a key event that changes the text runs a
\* refresh without a fault, and the popup is visible again if the provider
\* returns candidates for the new text.
C3_UsableAfterEscape ==
    [][(/\ hist.escaped /\ ~autocompleteList.present
        /\ last'.op = "InputHandler" /\ text' # text)
          => /\ fault' = "none"
             /\ (/\ autocompleteFunc # "nil"
                 /\ Provider(autocompleteFunc, text', Row(text', cursor')) # << >>)
                    => IsAutocompleteVisible' = Open]_vars

\* C4: Enter pressed while the popup is populated leaves, when the handler
\* has finished, exactly the highlighted candidate's value as the text, an
\* empty candidate list and IsAutocompleteVisible() false.
C4_EnterCommits ==
    [][(/\ IsAutocompleteVisible = Open
        /\ last'.op = "InputHandler" /\ last'.key = "KeyEnter")
          => /\ GetText' = Highlighted
             /\ autocompleteList'.items = << >>
             /\ IsAutocompleteVisible' = Closed]_vars

\* C5: a key event calls the registered changed callback at most once, and
\* calls it exactly when the text after the event differs from the text
\* before it, with the text after the event.
C5_ChangedPerEvent ==
    (last.op = "InputHandler" /\ changed = "set")
        => /\ Len(last.changedCalls) <= 1
           /\ (last.changedCalls # << >>) <=> last.changedText
           /\ \A i \in DOMAIN last.changedCalls : last.changedCalls[i] = GetText

\* C6: after a navigation key that previewed a candidate of another value
\* and an Enter that commits it, the changed callback has been called
\* exactly once with the committed candidate's value for this transition of
\* the text.
C6_ChangedOncePerCommit ==
    [][(/\ changed = "set"
        /\ last.op = "InputHandler" /\ last.key \in NavKeys /\ last.changedText
        /\ IsAutocompleteVisible = Open
        /\ last'.op = "InputHandler" /\ last'.key = "KeyEnter")
          => LET calls == last.changedCalls \o last'.changedCalls
             IN  Cardinality({i \in DOMAIN calls : calls[i] = Highlighted}) = 1]_vars

\* C7: in every state of a running program IsAutocompleteVisible() returns
\* true if and only if the latest refresh or SetAutocompleteList produced a
\* ranked list that is not empty and no Escape was handled since.
C7_VisibleIffRanked ==
    fault = "none"
        => IsAutocompleteVisible =
               [panics |-> FALSE,
                value |-> hist.ranked = "nonempty" /\ ~hist.escaped]

\* Draw has just given the popup its rectangle.
Drawn ==
    /\ last.op = "Draw" /\ fault = "none"
    /\ box.width >= 1 /\ box.height >= 1 /\ autocompleteList.present

\* C8: Draw places the popup above the anchor at max(0, anchor.y - height)
\* exactly when the bottom edge below the anchor (anchor.y + 1 + height,
\* height = candidates + 2) would exceed the screen height and the space
\* above (anchor.y - 2) is larger than the space below (screenHeight -
\* anchor.y); otherwise at anchor.y + 1.
C8_FlipRule ==
    Drawn =>
        LET height == GetItemCount(autocompleteList) + 2
            flip == /\ box.y + 1 + height > sheight
                    /\ box.y - 2 > sheight - box.y
        IN  listRect.y = IF flip
                         THEN (IF box.y - height < 0 THEN 0 ELSE box.y - height)
                         ELSE box.y + 1

\* C9: the rectangle Draw gives the popup has y >= 0, height >= 0 and
\* y + height <= screenHeight.
C9_OnScreen ==
    Drawn => /\ listRect.y >= 0
             /\ listRect.height >= 0
             /\ listRect.y + listRect.height <= sheight

\* C10: for a popup that is not empty, the width Draw gives it is 2 plus the
\* largest display width of value+description over its candidates.
C10_Width ==
    (Drawn /\ GetItemCount(autocompleteList) > 0) =>
        LET widths == {TaggedStringWidth(autocompleteList.items[i].MainText
                                             \o autocompleteList.items[i].SecondaryText) :
                           i \in 1..GetItemCount(autocompleteList)}
        IN  listRect.width = 2 + CHOOSE w \in widths : \A v \in widths : v <= w

\* C11: while Draw holds autocompleteListMutex no other operation releases or
\* repopulates the popup (they would have to hold the same mutex), so Draw
\* never uses a popup that changed between its presence check and its last
\* use: Draw does not panic.
C11_MutationsUnderLock ==
    [][mutex = "Draw"
         => /\ autocompleteList'.present = autocompleteList.present
            /\ autocompleteList'.items = autocompleteList.items
            /\ draw'.pc # "panicked"]_vars

\* C18: autocompleteListMutex is not held across the collaborator's drawing:
\* when Draw calls List.Draw it has released the mutex, having read what it
\* needs of the candidate list; the operations that invoke the provider and
\* the callbacks never take the mutex.
C18_NoLockAcrossCalls ==
    /\ draw.pc = "list" => mutex = "free"
    /\ last.op \in {"InputHandler", "SetAutocompleteFunc"} => mutex \in {"free", "Draw"}

\* C12 as claimed: a run of the input handler calls the provider at most
\* once, never when the text at its end is the text at its start, and never
\* for a navigation key, whatever autocompleted callback is registered.
C12_ProviderNeverOnNavigation ==
    last.op = "InputHandler"
        => /\ Len(last.providerCalls) <= 1
           /\ last.providerCalls # << >> => last.changedText
           /\ last.key \in NavKeys => last.providerCalls = << >>

\* C12 amended: a run of the input handler calls the provider at most once
\* and only when the text at its end differs from the text at its start; a
\* navigation key calls it only when a registered autocompleted callback
\* changed the text itself and returned false.
C12_ProviderOncePerChange ==
    last.op = "InputHandler"
        => /\ Len(last.providerCalls) <= 1
           /\ last.providerCalls # << >> => last.changedText
           /\ (last.key \in NavKeys /\ last.providerCalls # << >>)
                  => autocompleted = "setkeep" /\ last.autocompletedCalls # << >>

\* A navigation key wrote the preview with a provider registered, and the
\* provider was not called.
C12_PreviewWithoutRefresh ==
    /\ KeyEvent("KeyDown") /\ last.changedText
    /\ autocompleteFunc # "nil" /\ autocompleted = "nil"
    /\ last.providerCalls = << >>

\* C13: after a run of the input handler that changed the text, when the new
\* text is empty or the provider has no candidates for it, the candidate
\* list is empty and IsAutocompleteVisible() is false, whatever the list held
\* before and whoever populated it.
C13_RecomputedFromScratch ==
    [][(/\ last'.op = "InputHandler" /\ text' # text
        /\ \/ text' = << >>
           \/ /\ autocompleteFunc # "nil"
              /\ Provider(autocompleteFunc, text', Row(text', cursor')) = << >>)
          => /\ autocompleteList'.items = << >>
             /\ IsAutocompleteVisible' = Closed]_vars

\* C14: Tab, Down, Up and Backspace are withheld from the text buffer only
\* while the popup is populated and visible; with no candidates, the initial
\* state included, every key event reaches the text buffer.
C14_KeysForwardedWhileEditing ==
    [][(last'.op = "InputHandler" /\ IsAutocompleteVisible # Open)
          => last'.toTextArea]_vars

\* A navigation key moves the highlight of the popup while no autocompleted
\* callback is registered.
PreviewStep ==
    /\ autocompleted = "nil" /\ autocompleteList.present
    /\ last'.op = "InputHandler" /\ last'.key \in NavKeys
    /\ autocompleteList'.currentItem # autocompleteList.currentItem

C16_CallbackOnNavigation ==
    [][(/\ autocompleted # "nil" /\ autocompleteList.present
        /\ Len(autocompleteList.items) >= 2
        /\ last'.op = "InputHandler" /\ last'.key \in {"KeyTab", "KeyDown", "KeyUp"})
          => /\ \E index \in 0..(Len(autocompleteList.items) - 1) :
                    /\ index # autocompleteList.currentItem
                    /\ last'.autocompletedCalls =
                           << <<stripTags(autocompleteList.items[index + 1].MainText),
                                index, "AutocompletedNavigate">> >>
             /\ autocompleted = "close"
                    => /\ IsAutocompleteVisible' = Closed
                       /\ text' = text => /\ last'.providerCalls = << >>
                                          /\ last'.changedCalls = << >>]_vars

\* C17: a refresh or a SetAutocompleteList call leaves the sequence supplied
\* by the provider or the caller in its original order and contents, and
\* leaves the field text and the cursor unchanged.
C17_SuppliedUntouched ==
    [][last'.op \in {"SetAutocompleteList", "SetAutocompleteFunc"}
          => /\ slice' = supplied'
             /\ text' = text /\ cursor' = cursor]_vars

\* C19: Enter pressed while the popup is present and empty reads no candidate
\* from the list, raises no fault and is handled by the text buffer.
C19_EnterOnEmptyPopup ==
    [][(/\ autocompleteList.present /\ autocompleteList.items = << >>
        /\ last'.op = "InputHandler" /\ last'.key = "KeyEnter")
          => /\ ~last'.itemRead
             /\ fault' = "none"
             /\ last'.toTextArea]_vars

\* C20 as claimed: the popup's rectangle never covers the widget's row: it
\* starts below the row or ends at or above it.
C20_NeverCoversInputRow ==
    Drawn => \/ listRect.y >= box.y + 1
             \/ listRect.y + listRect.height <= box.y

\* C20 amended: the popup's rectangle starts below the widget's row or ends
\* at or above it, except when the rows above the widget are fewer than the
\* popup's height (candidates + 2): then the rectangle may start at row 0,
\* where line 204 clamps it, and reach over the widget's row.
C20_CoversOnlyWhenClamped ==
    Drawn => \/ listRect.y >= box.y + 1
             \/ listRect.y + listRect.height <= box.y
             \/ /\ listRect.y = 0
                /\ box.y < GetItemCount(autocompleteList) + 2

\* A populated popup was flipped above the widget and fits there.
C20_FlippedAbove ==
    /\ Drawn /\ GetItemCount(autocompleteList) > 0
    /\ listRect.y < box.y /\ listRect.height > 0
    /\ listRect.y + listRect.height <= box.y

=============================================================================
